---- MODULE Spec2Model ----
(***************************************************************************)
(* Model of the loop scheduler (src/depsolver/graph.h, graph.cc) and of    *)
(* the per-quadrature-point value store (src/valuer.h).                    *)
(*                                                                         *)
(* A Node is identified with the rank of its address among the nodes of    *)
(* its graph: std::set<Node *> iterates in address order, so "the first    *)
(* element of a set" is the least handle.  Graph::create appends to        *)
(* _node_storage; the handle h has id h - 1.                               *)
(***************************************************************************)
EXTENDS Integers, Sequences, FiniteSets, TLC

\* ---------------------------------------------------------------- bounds
\* the graphs of Spec: at most MaxNodes nodes of the kinds Kinds, MaxEdges edges
MaxNodes == 4
MaxEdges == 3
\* the graphs of SpecChain: more nodes, of the two kinds ChainKinds
ChainNodes == 5
ChainEdges == 2
\* the graphs of SpecGraph, which clearDeps edits too
EditNodes == 3
\* the value stores of SpecStore: registered values, shift calls, and calls
\* of one IncrementQpValuer
MaxIds == 2
MaxShifts == 2
MaxNext == 2
MaxCells == 2
\* the value stores of SpecHistory: registered values and shift calls
HistIds == 1
DeepShifts == 4
\* the value stores of SpecProject: shift calls, and the longest vectors
\* project is called with
ProjShifts == 1
MaxMoves == 2
\* the value stores of SpecGuard: registered values, the depth of nested
\* calls of the store the call stack has room for, and the frames of
\* _cycle_stack
GuardIds == 3
MaxDepth == 5
MaxFrames == 2
NeedIds == 2
MaxNeeds == 2
\* the graphs of SpecMerge, with nodes on two blocks
MergeNodes == 3
\* the largest elem_id, face_id and qp of the Locations QpKey compares
MaxElem == 2
MaxFace == 1
MaxQp == 1
\* the graphs of SpecScenario: the siblings of the largest star
MaxSiblings == 5

\* the handles of the nodes a graph of the model can hold
Nodes == 1..(MaxSiblings + 2)

\* ------------------------------------------------------------- LoopType
\* enum class LoopCategory, in declaration order
None == 0
Nodal == 1
Face == 2
Elemental_onElem == 3
Elemental_onElemFV == 4
Elemental_onBoundary == 5
Elemental_onInternalSide == 6

LoopCategory == None..Elemental_onInternalSide

LoopType(cat, blk) == [category |-> cat, block |-> blk]

\* LoopType::operator<
LoopTypeLess(a, b) ==
  IF a.category # b.category THEN a.category < b.category ELSE a.block < b.block

\* Node::Node arguments (the name plays no part in scheduling)
NodeArgs(c, r, lt) == [cached |-> c, reducing |-> r, looptype |-> lt]

\* the arguments the model passes to create: a plain and a reducing node of
\* the default loop type, and a reducing node of another merge class
ChainKinds ==
  { NodeArgs(FALSE, FALSE, LoopType(Elemental_onElem, 0)),
    NodeArgs(TRUE, TRUE, LoopType(Elemental_onElem, 0)) }
Kinds == ChainKinds \cup { NodeArgs(TRUE, TRUE, LoopType(Nodal, 0)) }

VARIABLES
  storage,     \* Graph::_node_storage: the sequence of created nodes' fields
  deps,        \* Node::_deps of every handle
  dependers,   \* Node::_dependers of every handle
  cleared,     \* the handle the last operation called clearDeps on, else 0
  loop,        \* Node::_loop of every handle, -1 when not computed
  partitions,  \* the vector computePartitions returned last
  merged,      \* the merge argument of that call
  ascending,   \* whether mergeSiblings' loop nodes had addresses ascending in
               \* creation order in that call (TRUE when it was not called)
  loops,       \* the vector computeLoops returned last
  pc,          \* position of the driver: "build", "partitioned", "looped"
  ids,           \* ValueStore::_ids: the id of every registered name
  valuers,       \* ValueStore::_valuers with the state of each valuer
  want_old,      \* ValueStore::_want_old
  want_older,    \* ValueStore::_want_older
  have_mapper,   \* ValueStore::_have_mapper
  mapper,        \* ValueStore::_mapper: the id a mapper returns at a location
  external_curr, \* ValueStore::_external_curr
  curr_vals,     \* ValueStore::_curr_vals
  old_vals,      \* ValueStore::_old_vals
  older_vals,    \* ValueStore::_older_vals
  crashed,       \* the process ended on a null pointer
  shifts,        \* the number of shift calls made
  cells,         \* the pairs of id and location the driver makes its calls at
  ret,           \* the last call on the store and what it returned
  watch,         \* the pair of cells the three history variables follow
  got,           \* what get returned last at watch since the last shift
  gotPrev,       \* got as it was at the last shift
  armed,         \* wantOld was called on watch.id before any get of it
  errcheck,      \* ValueStore::_errcheck
  cycle_stack,   \* ValueStore::_cycle_stack: the ids in flight, frame by frame
  compared       \* the Locations QpKey compared last and what it answered

gvars == <<storage, deps, dependers, cleared>>
pvars == <<loop, partitions, merged, ascending, loops, pc>>
svars == <<ids, valuers, want_old, want_older, have_mapper, mapper, external_curr,
           curr_vals, old_vals, older_vals, crashed, shifts, cells, ret, watch, got, gotPrev, armed,
           errcheck, cycle_stack, compared>>
evars == <<errcheck, cycle_stack, compared>>
vars == <<storage, deps, dependers, cleared, loop, partitions, merged, ascending, loops, pc,
          ids, valuers, want_old, want_older, have_mapper, mapper, external_curr,
          curr_vals, old_vals, older_vals, crashed, shifts, cells, ret, watch, got, gotPrev, armed,
          errcheck, cycle_stack, compared>>

created == 1..Len(storage)

\* ----------------------------------------------------------- Node fields
isReducing(n) == storage[n].reducing
isCached(n) == storage[n].cached \/ storage[n].reducing
loopType(n) == storage[n].looptype

NoEdges == [n \in Nodes |-> {}]

EdgeCount == Cardinality({ e \in Nodes \X Nodes : e[2] \in deps[e[1]] })

\* Graph::create
Create(k) ==
  /\ storage' = Append(storage, k)
  /\ cleared' = 0
  /\ UNCHANGED <<deps, dependers>>

\* Node::needs(Node * n, ...): _deps.insert(n)
InsertDep(d, a, b) == [d EXCEPT ![a] = @ \cup {b}]

\* Node::needs(Node * n, ...): n->_dependers.insert(this)
InsertDependerMissing(d, a, b) == d
InsertDepender(d, a, b) == [d EXCEPT ![b] = @ \cup {a}]

\* Node::needs: assert(n != this) ends the process for a = b
Needs(a, b) ==
  /\ a # b
  /\ deps' = InsertDep(deps, a, b)
  /\ dependers' = InsertDepender(dependers, a, b)
  /\ cleared' = 0
  /\ UNCHANGED storage

\* Node::clearDeps
ClearDeps(n) ==
  /\ deps' = [deps EXCEPT ![n] = {}]
  /\ dependers' = [dependers EXCEPT ![n] = {}]
  /\ cleared' = n
  /\ UNCHANGED storage

\* ------------------------------------------------------- set iteration
Min(S) == CHOOSE x \in S : \A y \in S : x <= y
Max(S) == CHOOSE x \in S : \A y \in S : x >= y

\* the elements of a set of handles in iteration (address) order
RECURSIVE InOrder(_)
InOrder(S) == IF S = {} THEN <<>> ELSE <<Min(S)>> \o InOrder(S \ {Min(S)})

\* the keys of a std::map<LoopType, ...> in iteration order
RECURSIVE TypesInOrder(_)
TypesInOrder(T) ==
  IF T = {} THEN <<>>
  ELSE LET t == CHOOSE x \in T : \A y \in T \ {x} : LoopTypeLess(x, y)
       IN <<t>> \o TypesInOrder(T \ {t})

RECURSIVE Reverse(_)
Reverse(s) == IF s = <<>> THEN <<>> ELSE Append(Reverse(Tail(s)), Head(s))

RECURSIVE Flatten(_)
Flatten(ss) == IF ss = <<>> THEN <<>> ELSE Head(ss) \o Flatten(Tail(ss))

Range(s) == { s[i] : i \in DOMAIN s }

\* a sequence, or a function, with every element computed (once)
Seq1(s) == s \o <<>>
Fcn1(f) == f @@ <<>>

\* -------------------------------------------------------------- Subgraph
\* Subgraph::filter
filter(g, ns) == ns \cap g
\* Subgraph::roots()
roots(g) == { n \in g : filter(g, deps[n]) = {} }
\* Subgraph::leaves()
leaves(g) == { n \in g : filter(g, dependers[n]) = {} }

\* Node::transitiveDependers
RECURSIVE transitiveDependersOf(_, _)
transitiveDependersOf(D, n) ==
  D[n] \cup UNION { transitiveDependersOf(D, d) : d \in D[n] }

\* the graph induced by deps has no cycle: no node is reached from itself.
\* Computed by removing nodes without deps until none is left to remove.
RECURSIVE Peel(_, _)
Peel(D, S) ==
  LET free == { n \in S : D[n] \cap S = {} }
  IN IF free = {} THEN S ELSE Peel(D, S \ free)
Acyclic(D, S) == Peel(D, S) = {}

\* --------------------------------------------------------- LoopNumbering
\* Node::loopInner: the increment a depender dep contributes to n
LoopStepNoReducing(dep, n) == IF loopType(dep) # loopType(n) THEN 1 ELSE 0
LoopStep(dep, n) == IF loopType(dep) # loopType(n) \/ isReducing(n) THEN 1 ELSE 0

\* Node::loop / Node::loopInner on a graph without cycles (the recursion does
\* not return on a cycle).  maxloop starts at the loop of *_dependers.begin().
RECURSIVE loopInner(_)
loopInner(n) ==
  IF dependers[n] = {} THEN 0
  ELSE LET first == Min(dependers[n])
       IN Max({loopInner(first)} \cup { loopInner(d) + LoopStep(d, n) : d \in dependers[n] })

\* Node::unvisitAll: the _visited marks left when the call returns, marks
\* being the nodes marked by the queries made before
unvisitAll(marks) == marks \ created

\* Node::isDependerInner on node a with the _visited marks visited: the
\* answer and the marks the call leaves
RECURSIVE isDependerInner(_, _, _)
isDependerInner(a, n, visited) ==
  IF a \in visited THEN [found |-> FALSE, visited |-> visited]
  ELSE IF n \in dependers[a] THEN [found |-> TRUE, visited |-> visited \cup {a}]
  ELSE LET ds == InOrder(dependers[a])
           RECURSIVE walk(_, _)
           walk(i, v) ==
             IF i > Len(ds) THEN [found |-> FALSE, visited |-> v]
             ELSE LET r == isDependerInner(ds[i], n, v)
                  IN IF r.found THEN r ELSE walk(i + 1, r.visited)
       IN walk(1, visited \cup {a})

\* Node::isDepender
isDepender(a, n, marks) == isDependerInner(a, n, unvisitAll(marks)).found
\* Node::prepare followed by the loop() calls of computePartitions: the
\* memoized _loop of every created node
prepare == Fcn1([n \in Nodes |-> IF n \in created THEN loopInner(n) ELSE -1])

\* a walk that stops at no node of its loop type
FloodStopsNowhere(n, curr_loop, lp) == FALSE
\* ----------------------------------------------------------- Partitioner
\* a walk that stops at every node of a later loop, cached or not
FloodStopsDeeper(n, curr_loop, lp) == lp[n] > curr_loop
\* floodUp: the nodes the call adds to its subgraph
FloodStops(n, curr_loop, lp) == isCached(n) /\ lp[n] > curr_loop

RECURSIVE floodUp(_, _, _, _)
floodUp(n, t, curr_loop, lp) ==
  IF loopType(n) # t THEN {}
  ELSE IF FloodStops(n, curr_loop, lp) THEN {}
  ELSE {n} \cup UNION { floodUp(dep, t, curr_loop, lp) : dep \in deps[n] }

\* computePartitions, the floodUp loop over the leaves of one partition
Flooded(g, lp) == g \cup UNION { floodUp(n, loopType(n), lp[n], lp) : n \in leaves(g) }

\* computePartitions: one subgraph per loop number and loop type, in the
\* order of the loop numbers and, inside one, of the std::map's keys
LoopBuckets(lp) ==
  LET rootloops == { lp[n] : n \in roots(created) }
      maxloop == IF rootloops = {} THEN 0 ELSE Max(rootloops \cup {0})
      bucket(L) ==
        LET g == { n \in created : lp[n] = L }
            ts == TypesInOrder({ loopType(n) : n \in g })
        IN Seq1([i \in 1..Len(ts) |-> { n \in g : loopType(n) = ts[i] }])
  IN Flatten(Seq1([L \in 1..(maxloop + 1) |-> bucket(L - 1)]))

\* a search that finds the start nodes alone
findConnectedAlone(g, all) == all
\* findConnected: the nodes of g connected to the nodes of all
RECURSIVE findConnected(_, _)
findConnected(g, all) ==
  LET more == (UNION { deps[n] \cup dependers[n] : n \in all }) \cap g
  IN IF more \subseteq all THEN all ELSE findConnected(g, all \cup more)

\* splitPartitions, the while loop over the roots of one partition
RECURSIVE splitOne(_, _, _)
splitOne(g, rts, splits) ==
  IF rts = {} THEN splits
  ELSE LET r == Min(rts)
           split == findConnected(g, {r})
       IN splitOne(g, rts \ roots(split), Append(splits, split))

\* splitPartitions
splitPartitions(parts) ==
  Flatten(Seq1([i \in 1..Len(parts) |-> splitOne(parts[i], roots(parts[i]), <<>>)]))

\* computePartitions up to the optional merge
unmergedPartitions(lp) ==
  LET buckets == LoopBuckets(lp)
      flooded == Seq1([i \in 1..Len(buckets) |-> Flooded(buckets[i], lp)])
  IN splitPartitions(flooded)

\* an orderer that emits the first wave only
execOrderOnce(g, executed, order) ==
  IF g = {} THEN order ELSE Append(order, InOrder(roots(g)))
\* ----------------------------------------------------------- ExecOrderer
\* execOrder: a wave is the roots of what is left, less the cached ones
\* already executed
RECURSIVE execOrder(_, _, _)
execOrder(g, executed, order) ==
  IF g = {} THEN order
  ELSE LET skipped == { n \in roots(g) : n \in executed /\ isCached(n) }
           wave == roots(g) \ skipped
       IN IF wave = {} THEN order
          ELSE execOrder(g \ wave, executed \cup wave, Append(order, InOrder(wave)))

\* computeLoops
computeLoopsUnreversed(parts) == Seq1([i \in 1..Len(parts) |-> execOrder(parts[i], {}, <<>>)])
computeLoops(parts) ==
  Reverse(Seq1([i \in 1..Len(parts) |-> execOrder(parts[i], {}, <<>>)]))

\* --------------------------------------------------------- SiblingMerger
\* canMerge: the map "mergeable"
Elemental ==
  {Elemental_onElem, Elemental_onElemFV, Elemental_onBoundary, Elemental_onInternalSide}
\* a map in which only Elemental_onElem has the elemental categories
mergeableOneWay(cat) == IF cat = Elemental_onElem THEN Elemental ELSE {cat}
mergeable(cat) == IF cat \in Elemental THEN Elemental ELSE {cat}

\* the address orders of n loop nodes: graphgraph.nodes() iterates the loop
\* nodes by address, and operator new may hand the addresses out in any order
AddressOrders(n) == { s \in [1..n -> 1..n] : \A i, j \in 1..n : s[i] = s[j] => i = j }
OrdersOf == Fcn1([n \in 0..ChainNodes |-> AddressOrders(n)])
Orders(n) == IF n \in DOMAIN OrdersOf THEN OrdersOf[n] ELSE AddressOrders(n)

\* Node::dependsOn on the loop nodes: a is a transitive depender of b
dependsOn(TD, a, b) == a \in TD[b]

\* canMerge without the test of the blocks
canMergeAnyBlock(lt, TD, a, b) ==
  /\ a # b
  /\ lt[b].category \in mergeable(lt[a].category)
  /\ ~(dependsOn(TD, a, b) \/ dependsOn(TD, b, a))

\* canMerge on two loop nodes with loop types lt
canMerge(lt, TD, a, b) ==
  /\ a # b
  /\ lt[b].category \in mergeable(lt[a].category)
  /\ lt[a].block = lt[b].block
  /\ ~(dependsOn(TD, a, b) \/ dependsOn(TD, b, a))

\* no candidate cancels another
cancelsNothing(TD, loop1, loop2, o1, o2) == FALSE
\* mergeSiblings, the cancellation test of candidate <<loop1, loop2>> against
\* the later candidate <<o1, o2>>
cancels(TD, loop1, loop2, o1, o2) ==
  LET swap == loop1 = o2 \/ dependsOn(TD, loop1, o2) \/ dependsOn(TD, o2, loop1)
      other1 == IF swap THEN o2 ELSE o1
      other2 == IF swap THEN o1 ELSE o2
  IN \/ dependsOn(TD, loop1, other1) /\ dependsOn(TD, other2, loop2)
     \/ dependsOn(TD, other1, loop1) /\ dependsOn(TD, loop2, other2)
     \/ loop1 = other1 /\ (dependsOn(TD, loop2, other2) \/ dependsOn(TD, other2, loop2))
     \/ loop2 = other2 /\ (dependsOn(TD, loop1, other1) \/ dependsOn(TD, other1, loop1))

\* the pointers and the subgraphs stay as they are
repointNone(ptr, sub, p1, p2, i) == [ptr |-> ptr, sub |-> sub]
\* mergeSiblings, the loop body that applies one chosen merge to the pointers
\* merged_partitions (ptr, as indices into partitions) and the subgraphs (sub)
RECURSIVE repoint(_, _, _, _, _)
repoint(ptr, sub, p1, p2, i) ==
  IF i > Len(ptr) \/ ptr[p1] = ptr[p2] THEN [ptr |-> ptr, sub |-> sub]
  ELSE IF i = p1 THEN repoint(ptr, sub, p1, p2, i + 1)
  ELSE IF ptr[i] = ptr[p2]
       THEN repoint([ptr EXCEPT ![i] = ptr[p1]], [sub EXCEPT ![ptr[i]] = {}], p1, p2, i + 1)
       ELSE repoint(ptr, sub, p1, p2, i + 1)

applyMergeNoUnion(st, p1, p2) == repoint(st.ptr, st.sub, p1, p2, 1)
applyMerge(st, p1, p2) ==
  LET sub1 == IF st.ptr[p1] # st.ptr[p2]
              THEN [st.sub EXCEPT ![st.ptr[p1]] = @ \cup st.sub[st.ptr[p2]]]
              ELSE st.sub
  IN repoint(st.ptr, sub1, p1, p2, 1)

RECURSIVE applyMerges(_, _, _, _)
applyMerges(st, sorted_merges, chosen, i) ==
  IF i > Len(sorted_merges) THEN st
  ELSE IF i \in chosen
       THEN applyMerges(applyMerge(st, sorted_merges[i][1], sorted_merges[i][2]),
                        sorted_merges, chosen, i + 1)
       ELSE applyMerges(st, sorted_merges, chosen, i + 1)

\* mergeSiblings, the loop that chooses the merges to perform
RECURSIVE chooseMerges(_, _, _, _)
chooseMerges(sorted_cancellations, canceled, chosen, i) ==
  IF i > Len(sorted_cancellations) THEN chosen
  ELSE IF i \in canceled THEN chooseMerges(sorted_cancellations, canceled, chosen, i + 1)
  ELSE chooseMerges(sorted_cancellations, canceled \cup sorted_cancellations[i],
                    chosen \cup {i}, i + 1)

\* mergeSiblings, the candidate merges: the pairs in the nested iteration
\* order that canMerge accepts and whose mirror was not accepted before
candidateMerges(lt, TD, mord) ==
  LET n == Len(mord)
      pair(k) == <<mord[((k - 1) \div n) + 1], mord[((k - 1) % n) + 1]>>
      accepted(k) ==
        /\ canMerge(lt, TD, pair(k)[1], pair(k)[2])
        /\ ~(((k - 1) % n) < ((k - 1) \div n) /\ canMerge(lt, TD, pair(k)[2], pair(k)[1]))
      RECURSIVE collect(_)
      collect(k) == IF k > n * n THEN <<>>
                    ELSE IF accepted(k) THEN <<pair(k)>> \o collect(k + 1)
                    ELSE collect(k + 1)
  IN collect(1)

\* mergeSiblings, node_to_loopnode: the loop node of the last partition that
\* holds the node
nodeToLoopnode(parts) ==
  Fcn1([n \in UNION Range(parts) |-> Max({ i \in 1..Len(parts) : n \in parts[i] })])
\* mergeSiblings, the deps the loop nodes get from the needs calls
loopNodeDeps(parts) ==
  LET covered == UNION Range(parts)
      node_to_loopnode == nodeToLoopnode(parts)
  IN Seq1([i \in 1..Len(parts) |->
             { node_to_loopnode[dep] :
                 dep \in UNION { deps[node] \cap covered :
                                   node \in { x \in covered : node_to_loopnode[x] = i } } }
             \ {i}])

\* mergeSiblings on the partitions parts, the loop nodes having the address
\* order mord, up to the erasing of the empty partitions.  std::sort is the insertion sort every standard library uses
\* for the at most 16 candidates the bounds allow: it keeps equal keys in order.
mergeState(parts, mord) ==
  LET P == Len(parts)
      lt == Seq1([i \in 1..P |-> loopType(Min(parts[i]))])
      mdeps == loopNodeDeps(parts)
      mdependers == Seq1([i \in 1..P |-> { j \in 1..P : i \in mdeps[j] }])
      TD == Seq1([i \in 1..P |-> transitiveDependersOf(mdependers, i)])
      candidate_merges == Seq1(candidateMerges(lt, TD, mord))
      C == Len(candidate_merges)
      hit(i, j) == cancels(TD, candidate_merges[i][1], candidate_merges[i][2],
                           candidate_merges[j][1], candidate_merges[j][2])
      cancellations == Seq1([i \in 1..C |->
                         { j \in 1..C : (i < j /\ hit(i, j)) \/ (j < i /\ hit(j, i)) }])
      size == Seq1([i \in 1..C |-> Cardinality(cancellations[i])])
      position == Seq1([i \in 1..C |->
                    1 + Cardinality({ j \in 1..C :
                                        size[j] < size[i] \/ (size[j] = size[i] /\ j < i) })])
      indices == Seq1([k \in 1..C |-> CHOOSE i \in 1..C : position[i] = k])
      sorted_merges == Seq1([k \in 1..C |-> candidate_merges[indices[k]]])
      sorted_cancellations ==
        Seq1([k \in 1..C |-> { position[j] : j \in cancellations[indices[k]] }])
      chosen_merges == chooseMerges(sorted_cancellations, {}, {}, 1)
      start == [ptr |-> Seq1([i \in 1..P |-> i]), sub |-> parts]
  IN [sorted_merges |-> sorted_merges, chosen_merges |-> chosen_merges,
      done |-> applyMerges(start, sorted_merges, chosen_merges, 1)]

\* mergeSiblings: the partitions left when the empty ones are erased
mergeSiblings(parts, mord) ==
  SelectSeq(mergeState(parts, mord).done.sub, LAMBDA g : g # {})

\* computePartitions
ComputePartitions(merge) ==
  /\ pc = "build"
  /\ Acyclic(deps, created)
  /\ LET lp == prepare
         parts == unmergedPartitions(lp)
     IN /\ loop' = lp
        /\ IF merge
           THEN \E mord \in Orders(Len(parts)) :
                  /\ partitions' = mergeSiblings(parts, mord)
                  /\ ascending' = (mord = [i \in 1..Len(parts) |-> i])
           ELSE partitions' = parts /\ ascending' = TRUE
  /\ merged' = merge
  /\ pc' = "partitioned"
  /\ UNCHANGED <<loops, gvars, svars>>

\* computeLoops
ComputeLoops ==
  /\ pc = "partitioned"
  /\ loops' = computeLoops(partitions)
  /\ pc' = "looped"
  /\ UNCHANGED <<loop, partitions, merged, ascending, gvars, svars>>

\* ------------------------------------------------------------ ValueStore
\* The store is built with errcheck = false (the constructor's default), and
\* its valuers do not call back into the store, so _cycle_stack stays unused.
\* A Location is Location(nqp, qp) with the default elem, block and face: QpKey
\* orders these by qp, which stands for the Location.
NameOf == SubSeq(<<"p1", "p2", "p3", "p4">>, 1, MaxIds)
Names == Range(NameOf)
Locations == {0, 1}
Ids == 0..(MaxIds - 1)

\* no entry in a std::map<Location, Value *>
NoVal == -1
\* an entry that is a pointer to a deleted Value, and one that is nullptr
Freed == -2
Null == -3
\* what a read through a pointer to a deleted Value, or through nullptr, may
\* give when the process goes on
Garbage == {0, 42, 43}

\* The valuers are the two stateless and counting valuers of main.cc, behind
\* Valuer<T>::get: ConstQpValuer(val), IncrementQpValuer; NullValuer is the
\* nullptr addMapper registers
ConstQpValuer(v) == [kind |-> "const", val |-> v, next |-> 0]
IncrementQpValuer == [kind |-> "increment", val |-> 0, next |-> 0]
NullValuer == [kind |-> "null", val |-> 0, next |-> 0]
Valuers == {ConstQpValuer(42), ConstQpValuer(43), IncrementQpValuer}

\* Valuer<T>::get, and the valuer after the call (_next++)
valuerGet(q, loc) == IF q.kind = "const" THEN q.val ELSE q.next
valuerStep(q) == IF q.kind = "increment" THEN [q EXCEPT !.next = @ + 1] ELSE q
\* Valuer<T>::initialOld and initialOlder: T{}
initialOld(q, loc) == IF "old" \in DOMAIN q THEN q.old ELSE 0
initialOlder(q, loc) == IF "older" \in DOMAIN q THEN q.older ELSE 0
\* a valuer that overrides initialOld and initialOlder
InitialValuer == [kind |-> "const", val |-> 42, next |-> 0, old |-> 1, older |-> 2]

NoVals == [i \in Ids |-> [l \in Locations |-> NoVal]]
registered == 0..(Len(valuers) - 1)

\* what a call leaves for its caller; initial tells that getStored took the
\* value from initialOld or initialOlder
Returned(op, id, loc, val, initial) ==
  [op |-> op, id |-> id, loc |-> loc, val |-> val, initial |-> initial]

Other == Returned("other", 0, 0, NoVal, FALSE)

\* ValueStore::add, the private overload; m is the mapper (<<>> for none)
add(name, q, m) ==
  LET id == Len(valuers)
  IN /\ ids' = [n \in DOMAIN ids \cup {name} |-> IF n = name THEN id ELSE ids[n]]
     /\ valuers' = Append(valuers, q)
     /\ want_old' = Append(want_old, FALSE)
     /\ want_older' = Append(want_older, FALSE)
     /\ mapper' = Append(mapper, m)
     /\ have_mapper' = Append(have_mapper, q = NullValuer)
     /\ external_curr' = Append(external_curr, FALSE)
     /\ ret' = Other
     /\ UNCHANGED <<curr_vals, old_vals, older_vals, crashed, shifts, cells, watch, got, gotPrev, armed>>

\* the id the mapper redirections of get and getStored end at
RECURSIVE resolve(_, _)
resolve(id, loc) == IF have_mapper[id + 1] THEN resolve(mapper[id + 1][loc], loc) ELSE id

\* ValueStore::wantOld: id(name) throws for a name never added
wantOld(name) ==
  /\ name \in DOMAIN ids
  /\ want_old' = [want_old EXCEPT ![ids[name] + 1] = TRUE]
  /\ armed' = (armed \/ (ids[name] = watch[1]
                          /\ ~external_curr[resolve(ids[name], watch[2]) + 1]))
  /\ ret' = Other
  /\ UNCHANGED <<ids, valuers, want_older, have_mapper, mapper, external_curr,
                 curr_vals, old_vals, older_vals, crashed, shifts, cells, watch, got, gotPrev>>

\* ValueStore::wantOlder
wantOlder(name) ==
  /\ name \in DOMAIN ids
  /\ want_older' = [want_older EXCEPT ![ids[name] + 1] = TRUE]
  /\ ret' = Other
  /\ UNCHANGED <<ids, valuers, want_old, have_mapper, mapper, external_curr,
                 curr_vals, old_vals, older_vals, crashed, shifts, cells, watch, got, gotPrev, armed>>

\* ValueStore::stageOld
stageOldSkipped(vals, id, loc, val) == vals
stageOld(vals, id, loc, val) == [vals EXCEPT ![id][loc] = val]

\* ValueStore::get
get(id, loc) ==
  LET r == resolve(id, loc)
      q == valuers[r + 1]
      val == valuerGet(q, loc)
  IN /\ valuers' = [valuers EXCEPT ![r + 1] = valuerStep(q)]
     /\ external_curr' = [external_curr EXCEPT ![r + 1] = TRUE]
     /\ curr_vals' = IF want_old[r + 1] \/ want_older[r + 1]
                     THEN stageOld(curr_vals, r, loc, val)
                     ELSE curr_vals
     \* stageOld deletes the entry it replaces: a second delete when it is Freed
     /\ IF (want_old[r + 1] \/ want_older[r + 1]) /\ curr_vals[r][loc] = Freed
        THEN crashed' \in BOOLEAN
        ELSE UNCHANGED crashed
     /\ ret' = IF <<id, loc>> = watch THEN Returned("get", id, loc, val, FALSE) ELSE Other
     /\ got' = IF watch[1] \in {id, r} /\ watch[2] = loc THEN val ELSE got
     /\ UNCHANGED cells
     /\ UNCHANGED <<ids, want_old, want_older, have_mapper, mapper,
                    old_vals, older_vals, shifts, watch, gotPrev, armed>>

\* ValueStore::getStored, called by getOld (older = FALSE) and getOlder
getStored(op, older, id, loc) ==
  LET r == resolve(id, loc)
      q == valuers[r + 1]
      vals == IF older THEN older_vals ELSE old_vals
      \* the flag older is not passed on through a mapper
      olderHere == older /\ ~have_mapper[id + 1]
      forced == ~external_curr[r + 1]
      initial == vals[r][loc] = NoVal
      \* the entry is there and points to no Value
      invalid == vals[r][loc] \in {Freed, Null}
      read == IF invalid THEN Garbage
              ELSE IF ~initial THEN {vals[r][loc]}
              ELSE IF olderHere THEN {initialOlder(q, loc)} ELSE {initialOld(q, loc)}
  IN /\ IF older
        THEN want_older' = [want_older EXCEPT ![r + 1] = TRUE] /\ UNCHANGED want_old
        ELSE want_old' = [want_old EXCEPT ![r + 1] = TRUE] /\ UNCHANGED want_older
     /\ IF forced
        THEN /\ valuers' = [valuers EXCEPT ![r + 1] = valuerStep(q)]
             /\ curr_vals' = stageOld(curr_vals, r, loc, valuerGet(q, loc))
        ELSE UNCHANGED <<valuers, curr_vals>>
     /\ IF invalid \/ (forced /\ curr_vals[r][loc] = Freed)
        THEN crashed' \in BOOLEAN
        ELSE UNCHANGED crashed
     /\ \E val \in read :
          ret' = IF <<id, loc>> = watch THEN Returned(op, id, loc, val, initial) ELSE Other
     /\ UNCHANGED cells
     /\ UNCHANGED <<ids, have_mapper, mapper, external_curr, old_vals, older_vals,
                    shifts, watch, got, gotPrev, armed>>

\* ValueStore::getOld and ValueStore::getOlder
getOld(id, loc) == getStored("getOld", FALSE, id, loc)
getOlder(id, loc) == getStored("getOlder", TRUE, id, loc)

\* ValueStore::shift: the two swaps, then valuer->shift() on every entry of
\* _valuers, which is a call through nullptr for the entry of a mapper
shift ==
  /\ older_vals' = old_vals
  /\ old_vals' = curr_vals
  /\ curr_vals' = older_vals
  /\ crashed' = (\E i \in DOMAIN valuers : valuers[i] = NullValuer)
  /\ shifts' = shifts + 1
  /\ UNCHANGED cells
  /\ ret' = Other
  /\ gotPrev' = got
  /\ got' = NoVal
  /\ UNCHANGED <<ids, valuers, want_old, want_older, have_mapper, mapper, external_curr,
                 watch, armed>>

\* ValueStore::project for one id: m is _old_vals[id], bad tells that a
\* deleted or null pointer was used on the way.  The result is the set of the
\* maps the call may leave, each with its flag.
\* the body of the first loop, for the index i
copyOne(m, bad, src, dst) ==
  LET \* delete _old_vals[id][dst]
      twice == m[dst] = Freed
      m1 == [m EXCEPT ![dst] = IF @ \in {NoVal, Null} THEN Null ELSE Freed]
      \* _old_vals[id][src]->clone(); operator[] adds a nullptr entry
      invalid == m1[src] < 0
      m2 == [m1 EXCEPT ![src] = IF @ = NoVal THEN Null ELSE @]
      cloned == IF invalid THEN Garbage ELSE {m1[src]}
  IN { [m |-> [m2 EXCEPT ![dst] = v], bad |-> bad \/ twice \/ invalid] : v \in cloned }

RECURSIVE copyAll(_, _, _, _, _)
copyAll(m, bad, srcs, dsts, i) ==
  IF i > Len(srcs) THEN {[m |-> m, bad |-> bad]}
  ELSE UNION { copyAll(o.m, o.bad, srcs, dsts, i + 1) : o \in copyOne(m, bad, srcs[i], dsts[i]) }

\* the second loop: delete _old_vals[id][*src], the entry stays
RECURSIVE deleteAll(_, _, _, _)
deleteAll(m, bad, srcs, i) ==
  IF i > Len(srcs) THEN [m |-> m, bad |-> bad]
  ELSE deleteAll([m EXCEPT ![srcs[i]] = IF @ \in {NoVal, Null} THEN Null ELSE Freed],
                 bad \/ m[srcs[i]] = Freed, srcs, i + 1)

projectId(m, srcs, dsts) ==
  { deleteAll(o.m, o.bad, srcs, 1) : o \in copyAll(m, FALSE, srcs, dsts, 1) }

\* the loop over the ids, from id on
RECURSIVE projectFrom(_, _, _, _, _)
projectFrom(vals, bad, srcs, dsts, id) ==
  IF id >= Len(valuers) THEN {[vals |-> vals, bad |-> bad]}
  ELSE UNION { projectFrom([vals EXCEPT ![id] = o.m], bad \/ o.bad, srcs, dsts, id + 1) :
                 o \in projectId(vals[id], srcs, dsts) }

\* ValueStore::project
project(srcs, dsts) ==
  /\ \E o \in projectFrom(old_vals, FALSE, srcs, dsts, 0) :
       /\ old_vals' = o.vals
       /\ IF o.bad THEN crashed' \in BOOLEAN ELSE UNCHANGED crashed
  /\ ret' = Other
  /\ UNCHANGED <<ids, valuers, want_old, want_older, have_mapper, mapper, external_curr,
                 curr_vals, older_vals, shifts, cells, watch, got, gotPrev, armed>>

\* ------------------------------------------- ValueStore, valuers that call back
\* get and getStored as they run when the valuers call the store again and
\* when errcheck may be set.  A valuer has a type (Valuer<T>::type), and is
\* one of: a constant; DepQpValuer(toadd, dep), which gets the value named dep
\* as a double and adds toadd; a valuer that returns getOld of a named value.
\* A mapper gives the name of a value at a location, or throws (Missing).
TypedValuer(v, t) == [kind |-> "const", val |-> v, next |-> 0, type |-> t, dep |-> ""]
DepQpValuer(toadd, dep) ==
  [kind |-> "dep", val |-> toadd, next |-> 0, type |-> "double", dep |-> dep]
OldValuer(dep) == [kind |-> "old", val |-> 0, next |-> 0, type |-> "double", dep |-> dep]
Missing == "missing"
Types == {"double", "int"}

\* the part of the store a call changes
Store == [cs |-> cycle_stack, ext |-> external_curr, wo |-> want_old, woo |-> want_older,
          curr |-> curr_vals]
\* a call that throws leaves the store as it is at the throw
Thrown(st, out) == [st |-> st, out |-> out, val |-> NoVal]
\* _cycle_stack.back()
back(cs) == cs[Len(cs)]

RECURSIVE getChecked(_, _, _, _, _)
RECURSIVE getStoredChecked(_, _, _, _, _, _, _)

\* Valuer<T>::get of the valuer q, with depth nested calls still allowed
valuerCall(st, q, loc, depth) ==
  IF q.kind = "const" THEN [st |-> st, out |-> "ok", val |-> q.val]
  ELSE IF q.dep \notin DOMAIN ids THEN Thrown(st, "UnknownName")
  ELSE IF q.kind = "dep"
       THEN LET r == getChecked(st, ids[q.dep], "double", loc, depth)
            IN IF r.out = "ok" THEN [r EXCEPT !.val = @ + q.val] ELSE r
       ELSE getStoredChecked(st, "old", FALSE, ids[q.dep], "double", loc, depth)

\* a mapper that answers for the first location whatever the location is
mappedFirst(id, loc) ==
  LET name == mapper[id + 1][0]
  IN IF name = Missing THEN [out |-> "MissingMapping", id |-> 0]
     ELSE IF name \notin DOMAIN ids THEN [out |-> "UnknownName", id |-> 0]
     ELSE [out |-> "ok", id |-> ids[name]]

\* the mapper of id at loc: the id it returns, or the error it throws
mapped(id, loc) ==
  LET name == mapper[id + 1][loc]
  IN IF name = Missing THEN [out |-> "MissingMapping", id |-> 0]
     ELSE IF name \notin DOMAIN ids THEN [out |-> "UnknownName", id |-> 0]
     ELSE [out |-> "ok", id |-> ids[name]]

\* ValueStore::get<T>(id, loc); depth 0 stands for the call stack running out
getChecked(st, id, T, loc, depth) ==
  IF depth = 0 THEN Thrown(st, "overflow")
  ELSE IF have_mapper[id + 1]
  THEN LET to == mapped(id, loc)
       IN IF to.out = "ok" THEN getChecked(st, to.id, T, loc, depth - 1)
          ELSE Thrown(st, to.out)
  ELSE IF errcheck /\ id \in back(st.cs) THEN Thrown(st, "CyclicValueDependency")
  ELSE LET q == valuers[id + 1]
           marked == IF errcheck
                     THEN [st EXCEPT !.cs[Len(st.cs)] = @ \cup {id}]
                     ELSE st
       IN IF errcheck /\ T # q.type THEN Thrown(marked, "TypeMismatch")
          ELSE LET r == valuerCall(marked, q, loc, depth - 1)
                   s1 == [r.st EXCEPT !.ext[id + 1] = TRUE]
                   s2 == IF s1.wo[id + 1] \/ s1.woo[id + 1]
                         THEN [s1 EXCEPT !.curr = stageOld(@, id, loc, r.val)]
                         ELSE s1
                   s3 == IF errcheck
                         THEN [s2 EXCEPT !.cs[Len(s2.cs)] = @ \ {id}]
                         ELSE s2
               IN IF r.out = "ok" THEN [r EXCEPT !.st = s3] ELSE r

\* ValueStore::getStored<T>(vals, want, id, loc, older): tier tells which of
\* _old_vals and _want_old, or _older_vals and _want_older, vals and want are;
\* older is not passed on through a mapper
getStoredChecked(st, tier, older, id, T, loc, depth) ==
  IF depth = 0 THEN Thrown(st, "overflow")
  ELSE IF have_mapper[id + 1]
  THEN LET to == mapped(id, loc)
       IN IF to.out = "ok" THEN getStoredChecked(st, tier, FALSE, to.id, T, loc, depth - 1)
          ELSE Thrown(st, to.out)
  ELSE LET q == valuers[id + 1]
           pushed == IF errcheck THEN [st EXCEPT !.cs = Append(@, {})] ELSE st
           wanted == IF tier = "older" THEN [pushed EXCEPT !.woo[id + 1] = TRUE]
                     ELSE [pushed EXCEPT !.wo[id + 1] = TRUE]
           forced == ~wanted.ext[id + 1]
           r == IF forced THEN getChecked(wanted, id, T, loc, depth - 1)
                ELSE [st |-> wanted, out |-> "ok", val |-> NoVal]
           s1 == [r.st EXCEPT !.ext[id + 1] = IF forced THEN FALSE ELSE @]
           s2 == IF errcheck THEN [s1 EXCEPT !.cs = SubSeq(@, 1, Len(@) - 1)] ELSE s1
           vals == IF tier = "older" THEN older_vals ELSE old_vals
       IN IF errcheck /\ T # q.type THEN Thrown(pushed, "TypeMismatch")
          ELSE IF r.out # "ok" THEN r
          ELSE [st |-> s2, out |-> "ok",
                val |-> IF vals[id][loc] # NoVal THEN vals[id][loc]
                        ELSE IF older THEN initialOlder(q, loc) ELSE initialOld(q, loc)]

\* a call from outside the store ends: the store is as the call left it, and
\* the process is over when the call stack ran out
returns(op, id, T, loc, r) ==
  /\ cycle_stack' = r.st.cs
  /\ external_curr' = r.st.ext
  /\ want_old' = r.st.wo
  /\ want_older' = r.st.woo
  /\ curr_vals' = r.st.curr
  /\ crashed' = (r.out = "overflow")
  /\ ret' = [op |-> op, id |-> id, loc |-> loc, type |-> T, out |-> r.out, val |-> r.val]
  /\ UNCHANGED <<ids, valuers, have_mapper, mapper, old_vals, older_vals, shifts, cells,
                 watch, got, gotPrev, armed, errcheck, compared>>

getT(id, T, loc) == returns("get", id, T, loc, getChecked(Store, id, T, loc, MaxDepth))
getOldT(id, T, loc) ==
  returns("getOld", id, T, loc, getStoredChecked(Store, "old", FALSE, id, T, loc, MaxDepth))
getOlderT(id, T, loc) ==
  returns("getOlder", id, T, loc, getStoredChecked(Store, "older", TRUE, id, T, loc, MaxDepth))

\* GuaranteeSet<T>: a valuer with a constant value that declares guarantees
GuaranteeSet(v, g) ==
  [kind |-> "const", val |-> v, next |-> 0, type |-> "double", dep |-> "", guarantees |-> g]
\* a valuer that claims every guarantee
guaranteesAll(q, val) == TRUE
\* GuaranteeSet::guarantees
guarantees(q, val) == val \in q.guarantees

\* get<T>(id, loc, needs): the valuer has to declare every guarantee of needs
getNeeds(id, T, loc, needs) ==
  returns("getNeeds", id, T, loc,
          IF \E i \in DOMAIN needs : ~guarantees(valuers[id + 1], needs[i])
          THEN Thrown(Store, "MissingGuarantee")
          ELSE getChecked(Store, id, T, loc, MaxDepth))

\* the calls of a driver of the store, with the bounds of the model
\* a valuer answers a call only while its counter is within the bound
callable(id, loc) == valuers[resolve(id, loc) + 1].next < MaxNext

Register ==
  /\ ~crashed
  /\ Len(valuers) < MaxIds
  /\ \/ \E q \in Valuers : add(NameOf[Len(valuers) + 1], q, <<>>)
     \/ \E m \in [Locations -> registered] : add(NameOf[Len(valuers) + 1], NullValuer, m)
  /\ UNCHANGED <<gvars, pvars, evars>>

Arm ==
  /\ ~crashed
  /\ \E name \in Names : wantOld(name) \/ wantOlder(name)
  /\ UNCHANGED <<gvars, pvars, evars>>

Fetch ==
  /\ ~crashed
  /\ \E id \in registered, loc \in Locations :
       /\ <<id, loc>> \in cells
       /\ callable(id, loc)
       /\ get(id, loc) \/ getOld(id, loc) \/ getOlder(id, loc)
  /\ UNCHANGED <<gvars, pvars, evars>>

Step ==
  /\ ~crashed
  /\ shifts < MaxShifts
  /\ shift
  /\ UNCHANGED <<gvars, pvars, evars>>

\* a new graph and a new store; the driver of the store keeps to the cells it
\* chose, and the history variables follow one of them
InitStore ==
  /\ storage = <<>>
  /\ deps = NoEdges
  /\ dependers = NoEdges
  /\ cleared = 0
  /\ loop = [n \in Nodes |-> -1]
  /\ partitions = <<>>
  /\ merged = FALSE
  /\ ascending = TRUE
  /\ loops = <<>>
  /\ pc = "build"
  /\ ids = <<>>
  /\ valuers = <<>>
  /\ want_old = <<>>
  /\ want_older = <<>>
  /\ have_mapper = <<>>
  /\ mapper = <<>>
  /\ external_curr = <<>>
  /\ curr_vals = NoVals
  /\ old_vals = NoVals
  /\ older_vals = NoVals
  /\ crashed = FALSE
  /\ shifts = 0
  /\ ret = Other
  /\ got = NoVal
  /\ gotPrev = NoVal
  /\ armed = FALSE
  /\ compared = <<>>
  /\ errcheck = FALSE
  /\ cycle_stack = <<{}>>
  /\ cells \in { c \in SUBSET (Ids \X Locations) : Cardinality(c) = MaxCells }
  /\ watch \in cells

NextStore == Register \/ Arm \/ Fetch \/ Step
SpecStore == InitStore /\ [][NextStore]_vars

\* the calls of a driver that follows the history of a few values over more
\* shifts: every location of every id is a cell of this driver
HistRegister ==
  /\ ~crashed
  /\ Len(valuers) < HistIds
  /\ \E q \in Valuers : add(NameOf[Len(valuers) + 1], q, <<>>)
  /\ UNCHANGED <<gvars, pvars, evars>>

HistStep ==
  /\ ~crashed
  /\ shifts < DeepShifts
  /\ shift
  /\ UNCHANGED <<gvars, pvars, evars>>

InitHistory ==
  /\ storage = <<>>
  /\ deps = NoEdges
  /\ dependers = NoEdges
  /\ cleared = 0
  /\ loop = [n \in Nodes |-> -1]
  /\ partitions = <<>>
  /\ merged = FALSE
  /\ ascending = TRUE
  /\ loops = <<>>
  /\ pc = "build"
  /\ ids = <<>>
  /\ valuers = <<>>
  /\ want_old = <<>>
  /\ want_older = <<>>
  /\ have_mapper = <<>>
  /\ mapper = <<>>
  /\ external_curr = <<>>
  /\ curr_vals = NoVals
  /\ old_vals = NoVals
  /\ older_vals = NoVals
  /\ crashed = FALSE
  /\ shifts = 0
  /\ ret = Other
  /\ got = NoVal
  /\ gotPrev = NoVal
  /\ armed = FALSE
  /\ compared = <<>>
  /\ errcheck = FALSE
  /\ cycle_stack = <<{}>>
  /\ cells = (0..(HistIds - 1)) \X Locations
  /\ watch \in cells

NextHistory == HistRegister \/ Arm \/ Fetch \/ HistStep
SpecHistory == InitHistory /\ [][NextHistory]_vars

\* the calls of a driver whose valuers give initial values of their own,
\* directly and behind mappers
InitialRegister ==
  /\ ~crashed
  /\ Len(valuers) < MaxIds
  /\ \/ add(NameOf[Len(valuers) + 1], InitialValuer, <<>>)
     \/ \E m \in [Locations -> registered] : add(NameOf[Len(valuers) + 1], NullValuer, m)
  /\ UNCHANGED <<gvars, pvars, evars>>

InitInitial ==
  /\ storage = <<>>
  /\ deps = NoEdges
  /\ dependers = NoEdges
  /\ cleared = 0
  /\ loop = [n \in Nodes |-> -1]
  /\ partitions = <<>>
  /\ merged = FALSE
  /\ ascending = TRUE
  /\ loops = <<>>
  /\ pc = "build"
  /\ ids = <<>>
  /\ valuers = <<>>
  /\ want_old = <<>>
  /\ want_older = <<>>
  /\ have_mapper = <<>>
  /\ mapper = <<>>
  /\ external_curr = <<>>
  /\ curr_vals = NoVals
  /\ old_vals = NoVals
  /\ older_vals = NoVals
  /\ crashed = FALSE
  /\ shifts = 0
  /\ ret = Other
  /\ got = NoVal
  /\ gotPrev = NoVal
  /\ armed = FALSE
  /\ compared = <<>>
  /\ errcheck = FALSE
  /\ cycle_stack = <<{}>>
  /\ cells = (0..(MaxIds - 1)) \X Locations
  /\ watch \in cells

NextInitial == InitialRegister \/ Fetch
SpecInitial == InitInitial /\ [][NextInitial]_vars

\* the calls of a driver that moves old values with project: constant
\* valuers, wantOld, get and getOld at every location, shift
\* the vectors of locations project is called with
Moves == UNION { [1..n -> Locations] : n \in 1..MaxMoves }

ProjRegister ==
  /\ ~crashed
  /\ Len(valuers) < HistIds
  /\ \E v \in {42, 43} : add(NameOf[Len(valuers) + 1], ConstQpValuer(v), <<>>)
  /\ UNCHANGED <<gvars, pvars, evars>>

ProjArm ==
  /\ ~crashed
  /\ \E name \in Names : wantOld(name)
  /\ UNCHANGED <<gvars, pvars, evars>>

ProjFetch ==
  /\ ~crashed
  /\ \E id \in registered, loc \in Locations : get(id, loc) \/ getOld(id, loc)
  /\ UNCHANGED <<gvars, pvars, evars>>

ProjStep ==
  /\ ~crashed
  /\ shifts < ProjShifts
  /\ shift
  /\ UNCHANGED <<gvars, pvars, evars>>

\* project is called on old values no earlier project has touched
ProjCall ==
  /\ ~crashed
  /\ \A id \in registered, loc \in Locations : old_vals[id][loc] \notin {Freed, Null}
  /\ \E srcs \in Moves, dsts \in Moves : Len(srcs) = Len(dsts) /\ project(srcs, dsts)
  /\ UNCHANGED <<gvars, pvars, evars>>

InitProject ==
  /\ storage = <<>>
  /\ deps = NoEdges
  /\ dependers = NoEdges
  /\ cleared = 0
  /\ loop = [n \in Nodes |-> -1]
  /\ partitions = <<>>
  /\ merged = FALSE
  /\ ascending = TRUE
  /\ loops = <<>>
  /\ pc = "build"
  /\ ids = <<>>
  /\ valuers = <<>>
  /\ want_old = <<>>
  /\ want_older = <<>>
  /\ have_mapper = <<>>
  /\ mapper = <<>>
  /\ external_curr = <<>>
  /\ curr_vals = NoVals
  /\ old_vals = NoVals
  /\ older_vals = NoVals
  /\ crashed = FALSE
  /\ shifts = 0
  /\ ret = Other
  /\ got = NoVal
  /\ gotPrev = NoVal
  /\ armed = FALSE
  /\ compared = <<>>
  /\ errcheck = FALSE
  /\ cycle_stack = <<{}>>
  /\ cells = (0..(HistIds - 1)) \X Locations
  /\ watch \in cells

NextProject == ProjRegister \/ ProjArm \/ ProjFetch \/ ProjStep \/ ProjCall
SpecProject == InitProject /\ [][NextProject]_vars

\* the calls of a driver of a store with errcheck set, whose valuers call the
\* store: get and getOld at the first location
GuardNameOf == SubSeq(<<"p1", "p2", "p3", "p4", "p5">>, 1, GuardIds)
GuardNames == Range(GuardNameOf)
GuardVals == [i \in 0..(GuardIds - 1) |-> [l \in Locations |-> NoVal]]
GuardValuers(name) ==
  {TypedValuer(42, "double"), TypedValuer(7, "int"), OldValuer(name)}
    \cup { DepQpValuer(1, dep) : dep \in GuardNames }

GuardRegister ==
  /\ ~crashed
  /\ Len(valuers) < GuardIds
  /\ \E q \in GuardValuers(GuardNameOf[Len(valuers) + 1]) :
       add(GuardNameOf[Len(valuers) + 1], q, <<>>)
  /\ UNCHANGED <<gvars, pvars, evars>>

\* a getOld or getOlder that throws leaves its frame on _cycle_stack: the
\* driver stops calling when MaxFrames frames are there
GuardFetch ==
  /\ ~crashed
  /\ Len(cycle_stack) < MaxFrames
  /\ \E id \in registered, T \in Types : getT(id, T, 0) \/ getOldT(id, T, 0)
  /\ UNCHANGED <<gvars, pvars>>

InitGuard ==
  /\ storage = <<>>
  /\ deps = NoEdges
  /\ dependers = NoEdges
  /\ cleared = 0
  /\ loop = [n \in Nodes |-> -1]
  /\ partitions = <<>>
  /\ merged = FALSE
  /\ ascending = TRUE
  /\ loops = <<>>
  /\ pc = "build"
  /\ ids = <<>>
  /\ valuers = <<>>
  /\ want_old = <<>>
  /\ want_older = <<>>
  /\ have_mapper = <<>>
  /\ mapper = <<>>
  /\ external_curr = <<>>
  /\ curr_vals = GuardVals
  /\ old_vals = GuardVals
  /\ older_vals = GuardVals
  /\ crashed = FALSE
  /\ shifts = 0
  /\ ret = Other
  /\ got = NoVal
  /\ gotPrev = NoVal
  /\ armed = FALSE
  /\ compared = <<>>
  /\ errcheck = TRUE
  /\ cycle_stack = <<{}>>
  /\ cells = {}
  /\ watch = <<0, 0>>

NextGuard == GuardRegister \/ GuardFetch
SpecGuard == InitGuard /\ [][NextGuard]_vars

\* the calls of a driver of a store with mappers over constant valuers: a
\* new value takes a name in use or the next new name
MapValuers == {TypedValuer(42, "double"), TypedValuer(43, "double")}
MapperTargets == {<<"p1", "p2">>, <<"p1", Missing>>, <<"p3", "p3">>}
Mappers == {[loc \in Locations |-> t[loc + 1]] : t \in MapperTargets}

MapRegister ==
  /\ ~crashed
  /\ Len(valuers) < GuardIds
  /\ \E n \in 1..(Len(valuers) + 1) :
       \/ \E q \in MapValuers : add(GuardNameOf[n], q, <<>>)
       \/ \E f \in Mappers : add(GuardNameOf[n], NullValuer, f)
  /\ UNCHANGED <<gvars, pvars, evars>>

MapFetch ==
  /\ ~crashed
  /\ Len(cycle_stack) < MaxFrames
  /\ \E id \in registered, T \in Types, loc \in Locations : getT(id, T, loc)
  /\ UNCHANGED <<gvars, pvars>>

InitMapper ==
  /\ storage = <<>>
  /\ deps = NoEdges
  /\ dependers = NoEdges
  /\ cleared = 0
  /\ loop = [n \in Nodes |-> -1]
  /\ partitions = <<>>
  /\ merged = FALSE
  /\ ascending = TRUE
  /\ loops = <<>>
  /\ pc = "build"
  /\ ids = <<>>
  /\ valuers = <<>>
  /\ want_old = <<>>
  /\ want_older = <<>>
  /\ have_mapper = <<>>
  /\ mapper = <<>>
  /\ external_curr = <<>>
  /\ curr_vals = GuardVals
  /\ old_vals = GuardVals
  /\ older_vals = GuardVals
  /\ crashed = FALSE
  /\ shifts = 0
  /\ ret = Other
  /\ got = NoVal
  /\ gotPrev = NoVal
  /\ armed = FALSE
  /\ compared = <<>>
  /\ errcheck \in BOOLEAN
  /\ cycle_stack = <<{}>>
  /\ cells = {}
  /\ watch = <<0, 0>>

NextMapper == MapRegister \/ MapFetch
SpecMapper == InitMapper /\ [][NextMapper]_vars

\* the calls of a driver that asks for guarantees: valuers that declare
\* guarantees, and get with a list of the guarantees the caller needs
Guarantees == {"isotropic", "constant"}
NeedLists == UNION { [1..n -> Guarantees] : n \in 0..MaxNeeds }

NeedRegister ==
  /\ ~crashed
  /\ Len(valuers) < NeedIds
  /\ \E v \in {42, 43}, g \in SUBSET Guarantees :
       add(GuardNameOf[Len(valuers) + 1], GuaranteeSet(v, g), <<>>)
  /\ UNCHANGED <<gvars, pvars, evars>>

NeedFetch ==
  /\ ~crashed
  /\ \E id \in registered, loc \in Locations, needs \in NeedLists :
       getNeeds(id, "double", loc, needs)
  /\ UNCHANGED <<gvars, pvars>>

InitNeeds ==
  /\ storage = <<>>
  /\ deps = NoEdges
  /\ dependers = NoEdges
  /\ cleared = 0
  /\ loop = [n \in Nodes |-> -1]
  /\ partitions = <<>>
  /\ merged = FALSE
  /\ ascending = TRUE
  /\ loops = <<>>
  /\ pc = "build"
  /\ ids = <<>>
  /\ valuers = <<>>
  /\ want_old = <<>>
  /\ want_older = <<>>
  /\ have_mapper = <<>>
  /\ mapper = <<>>
  /\ external_curr = <<>>
  /\ curr_vals = GuardVals
  /\ old_vals = GuardVals
  /\ older_vals = GuardVals
  /\ crashed = FALSE
  /\ shifts = 0
  /\ ret = Other
  /\ got = NoVal
  /\ gotPrev = NoVal
  /\ armed = FALSE
  /\ compared = <<>>
  /\ errcheck \in BOOLEAN
  /\ cycle_stack = <<{}>>
  /\ cells = {}
  /\ watch = <<0, 0>>

NextNeeds == NeedRegister \/ NeedFetch
SpecNeeds == InitNeeds /\ [][NextNeeds]_vars

\* a new graph and a new store, for the drivers of the graph
Init ==
  /\ storage = <<>>
  /\ deps = NoEdges
  /\ dependers = NoEdges
  /\ cleared = 0
  /\ loop = [n \in Nodes |-> -1]
  /\ partitions = <<>>
  /\ merged = FALSE
  /\ ascending = TRUE
  /\ loops = <<>>
  /\ pc = "build"
  /\ ids = <<>>
  /\ valuers = <<>>
  /\ want_old = <<>>
  /\ want_older = <<>>
  /\ have_mapper = <<>>
  /\ mapper = <<>>
  /\ external_curr = <<>>
  /\ curr_vals = NoVals
  /\ old_vals = NoVals
  /\ older_vals = NoVals
  /\ crashed = FALSE
  /\ shifts = 0
  /\ ret = Other
  /\ got = NoVal
  /\ gotPrev = NoVal
  /\ armed = FALSE
  /\ compared = <<>>
  /\ errcheck = FALSE
  /\ cycle_stack = <<{}>>
  /\ cells = {}
  /\ watch = <<0, 0>>

\* ------------------------------------------------------ Location, QpKey
\* Location(nqp, qp, elem, block_id, face_id): the fields QpKey reads; the
\* constructor leaves custom a null pointer
KeyLocation(e, f, q) == [elem_id |-> e, face_id |-> f, qp |-> q, custom |-> Null]
KeyLocations ==
  { KeyLocation(e, f, q) : e \in 0..MaxElem, f \in 0..MaxFace, q \in 0..MaxQp }

\* QpKey::operator(); Value::lessThan of two custom keys is the order of the
\* integers that stand for them
QpKey(lhs, rhs) ==
  \/ lhs.elem_id # rhs.elem_id /\ lhs.elem_id < rhs.elem_id
  \/ lhs.face_id # rhs.face_id /\ lhs.face_id < rhs.face_id
  \/ lhs.qp # rhs.qp /\ lhs.qp < rhs.qp
  \/ lhs.custom # Null /\ rhs.custom # Null /\ lhs.custom < rhs.custom
  \/ lhs.custom # Null /\ rhs.custom = Null

\* std::map<Location, Value *, QpKey>: two keys name one entry when neither
\* is less than the other
sameEntry(lhs, rhs) == ~QpKey(lhs, rhs) /\ ~QpKey(rhs, lhs)

\* the comparisons a std::map makes on three Locations a, b and c
KeyCompare ==
  /\ \E a \in KeyLocations, b \in KeyLocations, c \in KeyLocations :
       compared' = [a |-> a, b |-> b, c |-> c,
                    aa |-> QpKey(a, a), ab |-> QpKey(a, b), ba |-> QpKey(b, a),
                    bc |-> QpKey(b, c), ac |-> QpKey(a, c),
                    same |-> sameEntry(a, b)]
  /\ UNCHANGED <<gvars, pvars, ids, valuers, want_old, want_older, have_mapper, mapper,
                 external_curr, curr_vals, old_vals, older_vals, crashed, shifts, cells,
                 ret, watch, got, gotPrev, armed, errcheck, cycle_stack>>

NextKey == KeyCompare
SpecKey == Init /\ [][NextKey]_vars
\* the edit operations of the driver, with the bounds of the model
Build(kinds, maxnodes, maxedges) ==
  /\ pc = "build"
  /\ \/ \E k \in kinds : Len(storage) < maxnodes /\ Create(k)
     \/ \E a \in created, b \in created :
          /\ b \in deps[a] \/ EdgeCount < maxedges
          /\ Needs(a, b)
  /\ UNCHANGED <<pvars, svars>>

Edit == Build(Kinds, MaxNodes, MaxEdges)
Plan == \E merge \in BOOLEAN : ComputePartitions(merge)

Next == Edit \/ Plan \/ ComputeLoops
Spec == Init /\ [][Next]_vars

\* the same driver on the graphs of more nodes
EditChain == Build(ChainKinds, ChainNodes, ChainEdges)
NextChain == EditChain \/ Plan \/ ComputeLoops
SpecChain == Init /\ [][NextChain]_vars

\* a driver that edits only, clearDeps included
EditSmall == Build(ChainKinds, EditNodes, MaxEdges)
EditClearDeps == \E n \in created : ClearDeps(n) /\ UNCHANGED <<pvars, svars>>
NextGraph == EditSmall \/ EditClearDeps
SpecGraph == Init /\ [][NextGraph]_vars

\* a driver that builds small graphs of nodes of several categories on two
\* blocks, for canMerge on the nodes of the graph itself
MergeKinds ==
  { NodeArgs(TRUE, TRUE, LoopType(cat, blk)) :
      cat \in {Nodal, Elemental_onElem, Elemental_onBoundary}, blk \in {0, 1} }
EditMerge == Build(MergeKinds, MergeNodes, MaxEdges)
NextMerge == EditMerge
SpecMerge == Init /\ [][NextMerge]_vars
\* a driver for the unmerged plan of graphs that also hold cached nodes that
\* do not reduce, and plain nodes of a second loop type
CachedKinds ==
  ChainKinds \cup { NodeArgs(TRUE, FALSE, LoopType(Elemental_onElem, 0)),
                    NodeArgs(FALSE, FALSE, LoopType(Nodal, 0)) }
EditCached == Build(CachedKinds, MaxNodes, MaxEdges)
PlanUnmerged == ComputePartitions(FALSE)
NextCached == EditCached \/ PlanUnmerged
SpecCached == Init /\ [][NextCached]_vars
\* the loop types and the transitive dependers of the nodes of the graph
nodeTypes == Seq1([n \in created |-> loopType(n)])
nodeDependers == Seq1([n \in created |-> transitiveDependersOf(dependers, n)])

\* a driver that builds the graphs of given shapes, edge by edge in any
\* order, and plans them when they are complete
Reducer(cat) == NodeArgs(TRUE, TRUE, LoopType(cat, 0))
EdgesOf(D) == { e \in Nodes \X Nodes : e[2] \in D[e[1]] }
\* two chains below one node: 1 needs 2 needs 3 needs 4, 1 needs 5 needs 6
\* needs 7, the nodes 4 and 5 of category ends and the others elemental
Chains(ends) ==
  [kinds |-> [n \in 1..7 |-> IF n \in {4, 5} THEN Reducer(ends)
                             ELSE Reducer(Elemental_onElem)],
   edges |-> {<<1, 2>>, <<2, 3>>, <<3, 4>>, <<1, 5>>, <<5, 6>>, <<6, 7>>}]
\* k siblings that need node 1
Star(k) ==
  [kinds |-> [n \in 1..(k + 1) |-> Reducer(Elemental_onElem)],
   edges |-> { <<n, 1>> : n \in 2..(k + 1) }]
\* three pairs, 1 needs 2, 3 needs 4, 5 needs 6, where the first node of
\* each pair has the category of the second node of the next pair
Ring ==
  [kinds |-> <<Reducer(Elemental_onElem), Reducer(Face), Reducer(Nodal),
               Reducer(Elemental_onElem), Reducer(Face), Reducer(Nodal)>>,
   edges |-> {<<1, 2>>, <<3, 4>>, <<5, 6>>}]
Scenarios ==
  {Chains(Elemental_onElem), Chains(Nodal), Ring} \cup { Star(k) : k \in 3..MaxSiblings }
\* the scenarios the graph built so far is a complete one of
complete == { sc \in Scenarios : storage = sc.kinds /\ EdgesOf(deps) = sc.edges }

ScenarioCreate ==
  /\ pc = "build"
  /\ EdgesOf(deps) = {}
  /\ \E sc \in Scenarios :
       /\ Len(storage) < Len(sc.kinds)
       /\ storage = SubSeq(sc.kinds, 1, Len(storage))
       /\ Create(sc.kinds[Len(storage) + 1])
  /\ UNCHANGED <<pvars, svars>>

ScenarioNeeds ==
  /\ pc = "build"
  /\ \E sc \in Scenarios :
       /\ storage = sc.kinds
       /\ EdgesOf(deps) \subseteq sc.edges
       /\ \E e \in sc.edges \ EdgesOf(deps) : Needs(e[1], e[2])
  /\ UNCHANGED <<pvars, svars>>

ScenarioPlan ==
  /\ complete # {}
  /\ \E merge \in BOOLEAN : ComputePartitions(merge)

NextScenario == ScenarioCreate \/ ScenarioNeeds \/ ScenarioPlan \/ ComputeLoops
SpecScenario == Init /\ [][NextScenario]_vars

\* ================================================================ claims
planned == pc \in {"partitioned", "looped"}
inSomePartition(n) == \E i \in DOMAIN partitions : n \in partitions[i]
sweepNodes(s) == UNION { Range(loops[s][w]) : w \in DOMAIN loops[s] }

\* C1: after computePartitions(G, merge), for either value of merge, every
\* node of G is in at least one partition, and so is every dep of a node that
\* is in a partition.
C1_DepsCovered ==
  planned =>
    /\ \A n \in created : inSomePartition(n)
    /\ \A i \in DOMAIN partitions : \A n \in partitions[i] : \A d \in deps[n] :
         inSomePartition(d)
C1_Witness ==
  /\ pc = "partitioned" /\ merged
  /\ \E i \in DOMAIN partitions : \E n \in partitions[i] :
       /\ deps[n] # {}
       /\ \E j \in DOMAIN partitions : j # i /\ n \in partitions[j]

\* C2: after computePartitions(G, merge), for either value of merge, no
\* partition holds a reducing node together with a node that depends on it
\* directly.
C2_ReductionBarrier ==
  planned =>
    \A i \in DOMAIN partitions : \A r \in partitions[i] :
      isReducing(r) => dependers[r] \cap partitions[i] = {}

\* C3: with merge = false the plan computeLoops returns is topological: every
\* dep of a node occurring in a sweep occurs in an earlier wave of that sweep
\* or in an earlier sweep.
NoUncachedCrossTypeDep ==
  \A n \in created : \A d \in deps[n] : loopType(d) # loopType(n) => isCached(d)
C3_Topological ==
  (pc = "looped" /\ ~merged /\ NoUncachedCrossTypeDep) =>
    \A s \in DOMAIN loops : \A w \in DOMAIN loops[s] : \A n \in Range(loops[s][w]) :
      \A d \in deps[n] :
        \/ \E w2 \in 1..(w - 1) : d \in Range(loops[s][w2])
        \/ \E s2 \in 1..(s - 1) : d \in sweepNodes(s2)

C3_Witness ==
  /\ pc = "looped" /\ ~merged /\ NoUncachedCrossTypeDep
  /\ \E s \in DOMAIN loops : \E n \in sweepNodes(s) : deps[n] \ sweepNodes(s) # {}
  /\ \E s \in DOMAIN loops : Len(loops[s]) > 1
  /\ \E s, t \in DOMAIN loops : s # t /\ sweepNodes(s) \cap sweepNodes(t) # {}

\* C4: with merge = true, every dep of a node of a sweep that is not in that
\* node's partition is in a partition executed in an earlier sweep.  Stated
\* for the calls in which the addresses of mergeSiblings' loop nodes ascend in
\* creation order, the least the claim asks for.
C4_MergedOrderExecutable ==
  (pc = "looped" /\ merged /\ ascending) =>
    \A s \in DOMAIN loops : \A n \in sweepNodes(s) : \A d \in deps[n] :
      d \notin sweepNodes(s) => \E s2 \in 1..(s - 1) : d \in sweepNodes(s2)

\* C5: a node without dependers has loop 0; otherwise its loop is the maximum
\* over its dependers d of loop(d), plus one when d's loop type differs or the
\* node is reducing, so it is never below a depender's loop and is above it
\* whenever the increment applies.
C5_Increment(d, n) ==
  IF storage[d].looptype # storage[n].looptype \/ storage[n].reducing THEN 1 ELSE 0
C6_InverseAndIdempotent ==
  /\ \A a, b \in Nodes : b \in deps[a] <=> a \in dependers[b]
  /\ \A a, b \in created :
       (a # b /\ b \in deps[a]) =>
         /\ InsertDep(deps, a, b) = deps
         /\ InsertDepender(dependers, a, b) = dependers
C6_Witness ==
  \E a, b, c \in created : b \in deps[a] /\ c \in deps[b] /\ a \in dependers[b]

\* C7: after n.clearDeps(), n has no deps and no dependers, no other node has
\* n among its deps or its dependers, and deps and dependers are inverses over
\* the whole graph.
C7_ClearDepsDetaches ==
  cleared # 0 =>
    /\ deps[cleared] = {} /\ dependers[cleared] = {}
    /\ \A m \in created : cleared \notin deps[m] /\ cleared \notin dependers[m]
    /\ \A a, b \in created : b \in deps[a] <=> a \in dependers[b]

\* C8: needs refuses every edge that would close a cycle, so the graph
\* induced by deps is acyclic in every state create and needs reach.
C8_AlwaysAcyclic == Acyclic(deps, created)

\* getOld(watch.id, watch.loc) has just returned
oldWatched == ret.op = "getOld" /\ ret.id = watch[1] /\ ret.loc = watch[2]

\* C9: for an id registered with add and armed with wantOld before any get,
\* when get(id, L) returned v before the last shift, getOld(id, L) returns v;
\* each armed id has its own history (42 for one, 43 for the other).
C9_ArmedHistoryFlow ==
  (oldWatched /\ ~have_mapper[ret.id + 1] /\ armed /\ gotPrev # NoVal) =>
    (ret.val = gotPrev /\ ~ret.initial)
C9_Witness ==
  /\ oldWatched /\ armed /\ ret.id = 1 /\ ret.val = 43 /\ gotPrev = 43
  /\ valuers[1] = ConstQpValuer(42) /\ valuers[2] = ConstQpValuer(43)
  /\ want_old[1] /\ old_vals[0][ret.loc] = 42

\* C10: for any registered id, armed or not, when get(id, L) returned v before
\* the last shift, getOld(id, L) returns v; getOld returns the valuer's
\* initial-old value only when no get at L was made in that frame.
C10_HistoryWithoutArming ==
  oldWatched =>
    /\ gotPrev # NoVal => (ret.val = gotPrev /\ ~ret.initial)
    /\ ret.initial => gotPrev = NoVal

\* C11: shift rotates the three tiers: older becomes the previous old, old
\* the previous current, and current holds no entry for any id or location
\* (so that a staged value cannot come back as old after further shifts).
C11_ShiftRotates ==
  [][shifts' # shifts =>
       /\ older_vals' = old_vals
       /\ old_vals' = curr_vals
       /\ curr_vals' = NoVals]_vars

\* C19: project(srcs, dsts) copies one to one by index: for every id and every
\* i with an old value at srcs[i], the old value at dsts[i] after the call is
\* the old value that was at srcs[i] before it, also when a location is in
\* srcs and in dsts.  The vectors name no location twice, and every index
\* moves to another location.
OneToOne(v) == \A i, j \in DOMAIN v : v[i] = v[j] => i = j
Moving(srcs, dsts) ==
  /\ Len(srcs) = Len(dsts) /\ OneToOne(srcs) /\ OneToOne(dsts)
  /\ \A i \in DOMAIN srcs : srcs[i] # dsts[i]
C19_ProjectCopies ==
  [][\A srcs \in Moves, dsts \in Moves :
       (Moving(srcs, dsts) /\ project(srcs, dsts)) =>
         \A id \in registered, i \in DOMAIN srcs :
           old_vals[id][srcs[i]] >= 0 => old_vals'[id][dsts[i]] = old_vals[id][srcs[i]]]_vars

\* C20: project([L], [L]) is a no-op in value terms: the old value of an id
\* at L, which getOld(id, L) returns after a shift, is the same after the call.
C20_ProjectSamePlace ==
  [][\A loc \in Locations :
       project(<<loc>>, <<loc>>) =>
         \A id \in registered :
           old_vals[id][loc] >= 0 => old_vals'[id][loc] = old_vals[id][loc]]_vars

\* get<T>(id) re-enters get of an id that is in flight in its frame: the walk
\* follows the calls of the valuers registered directly; a call stops at a type
\* that does not match, and getOld opens a frame of its own
RECURSIVE reenters(_, _, _)
reenters(id, T, inflight) ==
  IF id \in inflight THEN TRUE
  ELSE LET q == valuers[id + 1]
       IN IF T # q.type THEN FALSE
          ELSE IF q.kind = "dep" /\ q.dep \in DOMAIN ids
               THEN reenters(ids[q.dep], "double", inflight \cup {id})
               ELSE FALSE

\* C12: with errcheck set, get(id, L) from outside the store fails with the
\* cyclic-dependency error exactly when the evaluation re-enters get of an id
\* that is in flight in the same frame
C12_CycleGuard ==
  [][\A id \in registered, T \in Types :
       (errcheck /\ getT(id, T, 0)) =>
         (ret'.out = "CyclicValueDependency" <=> reenters(id, T, {}))]_vars

\* the valuer of id asks the store for the old value of id itself
ownOld(id) ==
  /\ ~have_mapper[id + 1]
  /\ valuers[id + 1].kind = "old"
  /\ valuers[id + 1].dep \in DOMAIN ids
  /\ ids[valuers[id + 1].dep] = id

\* C13: with errcheck set, get(id, L) on a value whose valuer calls
\* getOld(id, L) of its own id returns the result of the valuer
C13_OwnOldReturns ==
  [][\A id \in registered :
       (errcheck /\ ownOld(id) /\ getT(id, "double", 0)) => ret'.out = "ok"]_vars

\* C14: with errcheck set, get and getOld of an id registered directly fail
\* with TypeMismatch when T is not the type of the valuer, and a constant
\* valuer asked with its own type does not fail with TypeMismatch
C14_TypeGuard ==
  [][\A id \in registered, T \in Types :
       (errcheck /\ ~have_mapper[id + 1] /\ (getT(id, T, 0) \/ getOldT(id, T, 0))) =>
         /\ T # valuers[id + 1].type => ret'.out = "TypeMismatch"
         /\ (T = valuers[id + 1].type /\ valuers[id + 1].kind = "const") =>
              ret'.out # "TypeMismatch"]_vars

\* C15: a step never changes the id of a registered name, and the number of
\* registered ids grows only together with a new name
C15_NameConflict ==
  [][/\ \A name \in DOMAIN ids : name \in DOMAIN ids' /\ ids'[name] = ids[name]
     /\ Len(valuers') # Len(valuers) => DOMAIN ids' # DOMAIN ids]_vars

\* the outcome of the step is the outcome r
outcome(r) ==
  /\ ret'.out = r.out
  /\ ret'.val = r.val
  /\ <<cycle_stack', external_curr', want_old', want_older', curr_vals'>> =
       <<r.st.cs, r.st.ext, r.st.wo, r.st.woo, r.st.curr>>

\* C16: get of an id registered with addMapper returns what get of the id the
\* mapper names for the location returns there, and when the mapper names no
\* value for the location the call fails and the store is as before the call
C16_MapperResolution ==
  [][\A id \in registered, T \in Types, loc \in Locations :
       (have_mapper[id + 1] /\ getT(id, T, loc)) =>
         LET name == mapper[id + 1][loc]
         IN IF name \in DOMAIN ids
            THEN outcome(getChecked(Store, ids[name], T, loc, MaxDepth))
            ELSE /\ ret'.out \notin {"ok", "overflow"}
                 /\ <<cycle_stack', external_curr', want_old', want_older', curr_vals'>> =
                      <<cycle_stack, external_curr, want_old, want_older, curr_vals>>]_vars

\* a mapper answered with the value of the valuer it names at the second
\* location, another one than it names at the first
C16_Witness ==
  /\ ret.op = "get"
  /\ ret.id \in registered
  /\ have_mapper[ret.id + 1]
  /\ ret.loc = 1
  /\ ret.out = "ok"
  /\ ret.val = 43
  /\ mapper[ret.id + 1][0] # mapper[ret.id + 1][1]

\* the chain of mappers that starts at id never reaches a valuer at loc
RECURSIVE endless(_, _, _)
endless(id, loc, seen) ==
  /\ have_mapper[id + 1]
  /\ \/ id \in seen
     \/ LET name == mapper[id + 1][loc]
        IN name \in DOMAIN ids /\ endless(ids[name], loc, seen \cup {id})

\* C17: get on a chain of mappers that never reaches a valuer fails with
\* MapperLoop
C17_MapperLoop ==
  [][\A id \in registered, T \in Types, loc \in Locations :
       (endless(id, loc, {}) /\ getT(id, T, loc)) => ret'.out = "MapperLoop"]_vars

C21_OldComputesCurrent ==
  [][(/\ watch[1] \in registered
      /\ shifts = 0
      /\ got = NoVal
      /\ curr_vals[resolve(watch[1], watch[2])][watch[2]] = NoVal
      /\ getOld(watch[1], watch[2])) =>
       curr_vals'[resolve(watch[1], watch[2])][watch[2]] # NoVal]_vars

\* C22: when no history is stored at L, getOld returns initialOld(L) of the
\* valuer and getOlder returns its initialOlder(L), for an id registered with
\* add and for an id that a mapper resolves to it
C22_InitialValues ==
  (ret.op \in {"getOld", "getOlder"} /\ ret.initial) =>
    LET q == valuers[resolve(ret.id, ret.loc) + 1]
    IN ret.val = IF ret.op = "getOld" THEN initialOld(q, ret.loc)
                 ELSE initialOlder(q, ret.loc)

\* computePartitions(G, true) has returned for the complete graph sc
mergedPlanOf(sc) == planned /\ merged /\ sc \in complete

\* C26: for the two chains with nodal nodes 4 (d) and 5 (e),
\* computePartitions(G, true) merges {b, f} and {c, g} and nothing else: five
\* partitions, d and e in different ones
C26_ScenarioS4 ==
  mergedPlanOf(Chains(Nodal)) =>
    /\ Len(partitions) = 5
    /\ Range(partitions) = {{1}, {2, 6}, {3, 7}, {4}, {5}}

C26_Witness ==
  /\ mergedPlanOf(Chains(Nodal))
  /\ ~ascending
  /\ {2, 6} \in Range(partitions)

\* C27: for k >= 3 siblings that need one cached reducing node,
\* computePartitions(G, true) returns two partitions, the node alone and all
\* the siblings together
C27_StarUnifies ==
  \A k \in 3..MaxSiblings :
    mergedPlanOf(Star(k)) =>
      /\ Len(partitions) = 2
      /\ Range(partitions) = {{1}, 2..(k + 1)}
C27_Witness ==
  /\ ~ascending
  /\ \E k \in 4..MaxSiblings : mergedPlanOf(Star(k)) /\ 2..(k + 1) \in Range(partitions)

\* C23: canMerge is symmetric and irreflexive over the pairs of nodes of a
\* graph
C23_CanMergeSymmetric ==
  Acyclic(deps, created) =>
    \A a, b \in created :
      /\ canMerge(nodeTypes, nodeDependers, a, b) = canMerge(nodeTypes, nodeDependers, b, a)
      /\ ~canMerge(nodeTypes, nodeDependers, a, a)
\* two nodes of different elemental categories that can merge, beside a node
\* that depends on one of them
C23_Witness ==
  /\ Acyclic(deps, created)
  /\ \E a, b, c \in created :
       /\ loopType(a).category # loopType(b).category
       /\ canMerge(nodeTypes, nodeDependers, a, b)
       /\ a \in deps[c]
       /\ loopType(c) = loopType(a)

\* the merge class of a category, and a depends on b directly or through
\* other nodes
mergeClass(cat) == IF cat \in {None, Nodal, Face} THEN cat ELSE Elemental_onElem
reaches(a, b) == b \in transitiveDependersOf(deps, a)
independent(a, b) == ~reaches(a, b) /\ ~reaches(b, a)

\* C24: for distinct nodes canMerge is true exactly when the categories are
\* of one merge class and neither node depends on the other, whatever the
\* blocks are
C24_CanMergeClasses ==
  Acyclic(deps, created) =>
    \A a, b \in created :
      a # b => (canMerge(nodeTypes, nodeDependers, a, b) <=>
                  /\ mergeClass(loopType(a).category) = mergeClass(loopType(b).category)
                  /\ independent(a, b))
\* C24, amended: canMerge is true exactly when the categories are of one
\* merge class, the blocks are equal and neither node depends on the other
C24_CanMergeSameBlock ==
  Acyclic(deps, created) =>
    \A a, b \in created :
      a # b => (canMerge(nodeTypes, nodeDependers, a, b) <=>
                  /\ mergeClass(loopType(a).category) = mergeClass(loopType(b).category)
                  /\ loopType(a).block = loopType(b).block
                  /\ independent(a, b))
\* two independent elemental nodes on different blocks, which cannot merge,
\* beside an elemental node on the block of one of them, which can
C24_Witness ==
  /\ Acyclic(deps, created)
  /\ \E a, b, c \in created :
       /\ loopType(a).category \in Elemental /\ loopType(b).category \in Elemental
       /\ loopType(c).category \in Elemental
       /\ loopType(a).block # loopType(b).block
       /\ independent(a, b)
       /\ ~canMerge(nodeTypes, nodeDependers, a, b)
       /\ canMerge(nodeTypes, nodeDependers, a, c)

\* C25: the partitions computePartitions(G, true) returns depend on the graph
\* only: whatever the address order of the loop nodes of mergeSiblings, they
\* are the partitions returned when the addresses ascend in creation order
C25_Deterministic ==
  (pc = "partitioned" /\ merged) =>
    LET parts == unmergedPartitions(prepare)
    IN partitions = mergeSiblings(parts, [i \in 1..Len(parts) |-> i])

\* the node d is found in partition q only
onlyIn(d, q) == \A r \in DOMAIN partitions : d \in partitions[r] <=> r = q
\* partition p contains a node that depends on a node found only in q
sweepDeps ==
  [p \in DOMAIN partitions |->
     { q \in DOMAIN partitions \ {p} :
         \E n \in partitions[p] : \E d \in deps[n] : onlyIn(d, q) }]

\* C28: in the partitions computePartitions(G, true) returns, the relation
\* "p contains a node that depends on a node found only in q" has no cycle
C28_MergesAcyclic ==
  (pc = "partitioned" /\ merged) => Acyclic(sweepDeps, DOMAIN partitions)

\* C29: the meta-graph of mergeSiblings has an edge from partition p to
\* partition q exactly when a node of p depends on a node that is in q and
\* not in p
C29_MetaEdges ==
  (pc = "partitioned" /\ merged) =>
    LET parts == unmergedPartitions(prepare)
        mdeps == loopNodeDeps(parts)
    IN \A p, q \in DOMAIN parts :
         p # q => (q \in mdeps[p] <=>
                     \E n \in parts[p] : \E d \in deps[n] : d \in parts[q] /\ d \notin parts[p])

\* C30: on a graph in which no node depends on a non-cached node of another
\* loop type, every dep of a member of a partition of computePartitions(G,
\* false) that is not in the partition is cached: the non-cached deps of the
\* members are in the partition
C30_FloodUpClosure ==
  (planned /\ ~merged /\ NoUncachedCrossTypeDep) =>
    \A i \in DOMAIN partitions : \A n \in partitions[i] : \A d \in deps[n] :
      d \notin partitions[i] => isCached(d)
\* a non-cached node duplicated into two partitions whose members need it,
\* and a cached dep left outside the partition of a node that needs it
C30_Witness ==
  /\ planned /\ ~merged /\ NoUncachedCrossTypeDep
  /\ \E i, j \in DOMAIN partitions : \E d \in partitions[i] \cap partitions[j] :
       /\ i # j
       /\ ~isCached(d)
       /\ \E n \in partitions[i] \ partitions[j] : d \in deps[n]
       /\ \E m \in partitions[j] \ partitions[i] : d \in deps[m]
  /\ \E i \in DOMAIN partitions : \E n \in partitions[i] : \E d \in deps[n] :
       d \notin partitions[i] /\ isCached(d)

\* C31: in the result of computePartitions(G, false) every cached node,
\* reducing or not, is in exactly one partition; only non-cached nodes are
\* found in several
C31_CachedOnce ==
  (planned /\ ~merged) =>
    \A n \in created : isCached(n) =>
      \E i \in DOMAIN partitions :
        \A j \in DOMAIN partitions : n \in partitions[j] <=> j = i
\* a cached node with a depender of its loop type in a later sweep, next to
\* a non-cached node that two partitions hold
C31_Witness ==
  /\ planned /\ ~merged
  /\ \E n \in created : \E m \in dependers[n] :
       /\ isCached(n) /\ ~isReducing(n) /\ loopType(m) = loopType(n)
       /\ \E i \in DOMAIN partitions : m \in partitions[i] /\ n \notin partitions[i]
  /\ \E i, j \in DOMAIN partitions : \E d \in partitions[i] \cap partitions[j] :
       i # j /\ ~isCached(d)

\* the pieces splitPartitions emits for the partition g
piecesOf(g) == splitOne(g, roots(g), <<>>)
\* the nodes of s hang together through the deps and dependers edges inside s
joined(s) ==
  \A t \in SUBSET s : (t # {} /\ t # s) =>
    \E a \in t, b \in s \ t : b \in deps[a] \/ a \in deps[b]

\* C32: splitPartitions cuts every acyclic partition g into its weakly
\* connected components: the pieces are pairwise disjoint, their union is g,
\* every piece is connected through edges inside g, and no deps edge inside
\* g joins two pieces
C32_SplitComponents ==
  Acyclic(deps, created) =>
    \A g \in SUBSET created :
      LET ps == piecesOf(g)
      IN /\ \A i, j \in DOMAIN ps : i # j => ps[i] \cap ps[j] = {}
         /\ UNION { ps[i] : i \in DOMAIN ps } = g
         /\ \A i \in DOMAIN ps : ps[i] # {} /\ joined(ps[i])
         /\ \A i, j \in DOMAIN ps : \A a \in ps[i] : \A b \in ps[j] :
              b \in deps[a] => i = j
\* computePartitions has split a flooded bucket into several pieces, one of
\* them of several nodes with two roots
C32_Witness ==
  /\ planned /\ ~merged
  /\ \E g \in SUBSET created :
       LET ps == piecesOf(g)
       IN /\ Len(ps) >= 2
          /\ \A i \in DOMAIN ps : \E p \in DOMAIN partitions : partitions[p] = ps[i]
          /\ \E i \in DOMAIN ps : Cardinality(roots(ps[i])) >= 2

\* the waves execOrder returns for the subgraph g
wavesOf(g) == execOrder(g, {}, <<>>)

\* C33: on an acyclic subgraph g execOrder returns a layering of g: every
\* node of g, cached or not, occurs in exactly one wave and once in it, every
\* dep of a node that lies inside g occurs in a strictly earlier wave, and no
\* wave is empty
C33_ExecOrderLayers ==
  Acyclic(deps, created) =>
    \A g \in SUBSET created :
      LET ws == wavesOf(g)
      IN /\ \A n \in g : \E w \in DOMAIN ws :
              /\ Cardinality({ k \in DOMAIN ws[w] : ws[w][k] = n }) = 1
              /\ \A v \in DOMAIN ws : n \in Range(ws[v]) => v = w
         /\ \A w \in DOMAIN ws : Range(ws[w]) \subseteq g /\ ws[w] # <<>>
         /\ \A w \in DOMAIN ws : \A n \in Range(ws[w]) : \A d \in deps[n] \cap g :
              \E v \in 1..(w - 1) : d \in Range(ws[v])
\* computeLoops has ordered a partition into several waves, one of them of
\* two nodes, and the graph holds a cached node with a depender
C33_Witness ==
  /\ pc = "looped"
  /\ \E s \in DOMAIN loops : \E p \in DOMAIN partitions :
       /\ loops[s] = wavesOf(partitions[p])
       /\ Len(loops[s]) >= 2
       /\ \E w \in DOMAIN loops[s] : Len(loops[s][w]) >= 2
  /\ \E n \in created : isCached(n) /\ dependers[n] # {}

\* C34: mergeSiblings neither loses nor invents nodes, returns no empty
\* partition, and leaves the nodes of the two partitions of every chosen
\* merge together in one returned partition, whatever the address order of
\* the loop nodes and so the order in which chained merges are applied
C34_MergeKeepsNodes ==
  (pc = "partitioned" /\ merged) =>
    LET parts == unmergedPartitions(prepare)
    IN \A mord \in Orders(Len(parts)) :
         LET st == mergeState(parts, mord)
             out == mergeSiblings(parts, mord)
         IN /\ UNION Range(out) = UNION Range(parts)
            /\ \A i \in DOMAIN out : out[i] # {}
            /\ \A k \in st.chosen_merges :
                 \E i \in DOMAIN out :
                   parts[st.sorted_merges[k][1]] \cup parts[st.sorted_merges[k][2]]
                     \subseteq out[i]

\* C35: a.isDepender(n) is true exactly when a depends on n directly or
\* transitively, n being reachable from a along deps edges, whatever queries
\* were made before
C35_IsDependerForward ==
  \A a \in created, n \in created, marks \in SUBSET created :
    isDepender(a, n, marks) <=> n \in transitiveDependersOf(deps, a)

\* C36: with errcheck set, a get or getOld that fails with an error of the
\* store or of a valuer, called on a store whose cycle stack is one empty
\* frame, leaves the cycle stack as one frame that holds no id
C36_ErrorsLeaveGuardClean ==
  [][\A id \in registered, T \in Types :
       (/\ errcheck /\ cycle_stack = <<{}>>
        /\ getT(id, T, 0) \/ getOldT(id, T, 0)
        /\ ret'.out \notin {"ok", "overflow"}) => cycle_stack' = <<{}>>]_vars

\* C37: shift() completes in every reachable state of the store, also when
\* names were registered with addMapper
C37_ShiftCompletes ==
  [][(~crashed /\ shift) => ~crashed']_vars

\* C38: every entry of the current, old and older maps refers to a live
\* stored value: none is a null pointer and none points to a deleted value
C38_EntriesLive ==
  \A id \in registered, loc \in Locations :
    /\ curr_vals[id][loc] \notin {Freed, Null}
    /\ old_vals[id][loc] \notin {Freed, Null}
    /\ older_vals[id][loc] \notin {Freed, Null}

\* C39: for a name registered with addMapper and armed with wantOld before
\* any get, when get(name, L) returned v, shift() completes and leaves v as
\* the old value of the id the mapper resolves to at L, which is what
\* getOld(name, L) then returns
C39_MapperHistory ==
  [][(/\ ~crashed /\ watch[1] \in registered /\ have_mapper[watch[1] + 1]
      /\ armed /\ got # NoVal
      /\ shift) =>
       /\ ~crashed'
       /\ old_vals'[resolve(watch[1], watch[2])][watch[2]] = got]_vars

\* C40: on Locations without custom key QpKey is a strict weak ordering,
\* irreflexive, asymmetric and transitive, and two Locations are equivalent
\* under it, and so share a map entry, exactly when elem_id, face_id and qp
\* are all equal
C40_QpKeyStrictWeak ==
  compared # <<>> =>
    /\ ~compared.aa
    /\ compared.ab => ~compared.ba
    /\ (compared.ab /\ compared.bc) => compared.ac
    /\ compared.same <=>
         /\ compared.a.elem_id = compared.b.elem_id
         /\ compared.a.face_id = compared.b.face_id
         /\ compared.a.qp = compared.b.qp
====
